---- MODULE Spec2Model ----
(***************************************************************************)
(* Ellipse and polyline rasterisation of embedded-graphics:                *)
(*   primitives/ellipse.rs   Ellipse, Points, StyledEllipseIterator,       *)
(*                           size_to_threshold                             *)
(*   primitives/polyline.rs  Polyline, PolylineIterator,                   *)
(*                           StyledPolylineIterator                        *)
(* Points are <<x, y>>, sizes are <<width, height>>, a pixel is            *)
(* <<point, colour>>.                                                      *)
(***************************************************************************)
EXTENDS Integers, Sequences, FiniteSets, TLC

VARIABLES
    ellipse,          \* the Ellipse value a test constructs
    vertices,         \* the slice a Polyline borrows
    style,            \* the PrimitiveStyle paired with the shape
    overflow_checks,  \* build profile: TRUE = arithmetic overflow panics, FALSE = it wraps
    probe,            \* the point handed to Ellipse::contains
    iter,             \* the iterator object the consumer drives
    ref,              \* the circle rasteriser's iterator the tests compare against
    ref_last,         \* what the latest call on ref returned
    out,              \* every item next() has returned so far, in order
    last              \* what the latest call on iter returned

vars == <<ellipse, vertices, style, overflow_checks, probe, iter, ref, ref_last, out, last>>

\* what the test set up: no step changes it
input == <<ellipse, vertices, style, overflow_checks, probe>>

\* Option<T>: None is the empty tuple, Some(v) the one-element tuple
None == <<>>
Some(v) == <<v>>

\* next() has not been called yet
NotCalled == <<"not", "called">>

\* no iterator has been created yet; the constructor panicked
NoIter == [state |-> "not created"]
Panicked == [state |-> "panicked"]

(***************************************************************************)
(* Bounds of the model.                                                    *)
(***************************************************************************)
MaxDim == 4
MaxStroke == 3
MaxVertices == 3

(***************************************************************************)
(* u32 values over the whole 32-bit range, as two 16-bit limbs <<hi, lo>>. *)
(***************************************************************************)
Limb == 2^16

U32(n) == <<n \div Limb, n % Limb>>

ToNat(u) == u[1] * Limb + u[2]

u32_lt(a, b) == a[1] < b[1] \/ (a[1] = b[1] /\ a[2] < b[2])

\* 2 * v on u32 in a build without overflow checks: the result modulo 2^32
wrapping_mul2(u) ==
    LET lo == 2 * u[2]
        hi == 2 * u[1] + (lo \div Limb)
    IN  <<hi % Limb, lo % Limb>>

\* 2 * v does not fit in a u32
mul2_overflows(u) == 2 * u[1] + ((2 * u[2]) \div Limb) >= Limb

\* u32::saturating_sub
saturating_sub(a, b) ==
    IF ~u32_lt(b, a)
    THEN <<0, 0>>
    ELSE LET borrow == IF a[2] < b[2] THEN 1 ELSE 0
         IN  <<a[1] - b[1] - borrow, a[2] + borrow * Limb - b[2]>>

\* Size::saturating_sub on a size whose components are natural numbers
Size_saturating_sub(size, other) ==
    <<ToNat(saturating_sub(U32(size[1]), other[1])),
      ToNat(saturating_sub(U32(size[2]), other[2]))>>

(***************************************************************************)
(* PrimitiveStyle                                                          *)
(***************************************************************************)
\* the stroke width is 0 whenever no stroke colour is set
effective_stroke_width(s) ==
    IF s.stroke_color = None THEN U32(0) ELSE s.stroke_width

\* neither a stroke colour nor a fill colour
is_transparent(s) == s.stroke_color = None /\ s.fill_color = None

(***************************************************************************)
(* Rectangle::points: every point of the box, row by row.  The cursor k    *)
(* counts the points already handed out.                                   *)
(***************************************************************************)
Rectangle_points(top_left, size) == [top_left |-> top_left, size |-> size, k |-> 0]

Rectangle_exhausted(r) == r.k >= r.size[1] * r.size[2]

Rectangle_item(r) ==
    <<r.top_left[1] + (r.k % r.size[1]), r.top_left[2] + (r.k \div r.size[1])>>

Rectangle_advance(r) == [r EXCEPT !.k = r.k + 1]

(***************************************************************************)
(* Ellipse                                                                 *)
(***************************************************************************)
Ellipse_new(top_left, size) == [top_left |-> top_left, size |-> size]

center_2x(e) ==
    LET radius == Size_saturating_sub(e.size, <<U32(1), U32(1)>>)
    IN  <<e.top_left[1] * 2 + radius[1], e.top_left[2] * 2 + radius[2]>>

size_to_threshold_no_small_case(size, point, diameter) ==
    LET a == size[1]
        b == size[2]
        x == point[1] * point[1]
        y == point[2] * point[2]
    IN  IF a = b
        THEN (x + y) < diameter * diameter
        ELSE b * x + a * y - b * a <= 0

size_to_threshold(size, point, diameter) ==
    LET a == size[1]
        b == size[2]
        x == point[1] * point[1]
        y == point[2] * point[2]
    IN  IF a = b
        THEN LET threshold == IF diameter <= 4
                              THEN diameter * diameter - (diameter \div 2)
                              ELSE diameter * diameter
             IN  (x + y) < threshold
        ELSE b * x + a * y - b * a <= 0

contains(e, point) ==
    LET c == center_2x(e)
    IN  size_to_threshold(<<e.size[1] * e.size[1], e.size[2] * e.size[2]>>,
                          <<point[1] * 2 - c[1], point[2] * 2 - c[2]>>,
                          e.size[1])

bounding_box(e) == [top_left |-> e.top_left, size |-> e.size]

(***************************************************************************)
(* Points: the ellipse's point iterator                                    *)
(***************************************************************************)
Points_new(e) == [ellipse |-> e, iter |-> Rectangle_points(e.top_left, e.size)]

Points_empty ==
    [ellipse |-> Ellipse_new(<<0, 0>>, <<0, 0>>),
     iter |-> Rectangle_points(<<0, 0>>, <<0, 0>>)]

\* the k-th point of the box
Rectangle_at(r, k) == Rectangle_item([r EXCEPT !.k = k])

\* the predicate of a find, as a function of the cursor of the point it is asked about
Rectangle_cursors(r) == 0 .. r.size[1] * r.size[2] - 1

\* Iterator::find on the rectangle's points: the first remaining point that
\* the predicate accepts and the cursor behind it, or None and the exhausted cursor
Rectangle_find(r, accepts) ==
    LET n == r.size[1] * r.size[2]
    IN  IF \E k \in r.k .. n - 1 : accepts[k]
        THEN LET first == CHOOSE k \in r.k .. n - 1 :
                              accepts[k] /\ \A j \in r.k .. k - 1 : ~accepts[j]
             IN  [item |-> Some(Rectangle_at(r, first)),
                  iter |-> [r EXCEPT !.k = first + 1]]
        ELSE [item |-> None, iter |-> [r EXCEPT !.k = n]]

Points_next_skipping(p) ==
    LET found == Rectangle_find(p.iter,
                     [k \in Rectangle_cursors(p.iter) |->
                         contains(p.ellipse, Rectangle_at(p.iter, k))])
    IN  [item |-> found.item,
         self |-> [p EXCEPT !.iter = IF found.item = None THEN found.iter
                                     ELSE Rectangle_advance(found.iter)]]

\* self.iter.find(|point| ellipse.contains(*point))
Points_next(p) ==
    LET found == Rectangle_find(p.iter,
                     [k \in Rectangle_cursors(p.iter) |->
                         contains(p.ellipse, Rectangle_at(p.iter, k))])
    IN  [item |-> found.item, self |-> [p EXCEPT !.iter = found.iter]]

(***************************************************************************)
(* Inputs                                                                  *)
(***************************************************************************)
TopLefts == {<<0, 0>>, <<-2, 3>>}

Ellipses == {Ellipse_new(t, <<w, h>>) : t \in TopLefts, w \in 0 .. MaxDim, h \in 0 .. MaxDim}

NoStyle == [stroke_color |-> None, stroke_width |-> U32(0), fill_color |-> None]

(***************************************************************************)
(* Ellipse::points() driven to exhaustion and beyond                       *)
(***************************************************************************)
\* the ellipse of tests::contains
ContainsTestEllipse == Ellipse_new(<<0, 0>>, <<40, 20>>)

InitPoints ==
    /\ ellipse \in Ellipses \cup {ContainsTestEllipse}
    /\ vertices = <<>>
    /\ style = NoStyle
    /\ overflow_checks = FALSE
    /\ probe = <<0, 0>>
    /\ iter = NoIter
    /\ ref = NoIter
    /\ ref_last = NotCalled
    /\ out = <<>>
    /\ last = NotCalled

EllipsePoints ==
    /\ iter = NoIter
    /\ iter' = Points_new(ellipse)
    /\ UNCHANGED <<input, ref, ref_last, out, last>>

PointsNext ==
    /\ iter # NoIter
    /\ LET r == Points_next(iter)
       IN  /\ iter' = r.self
           /\ last' = r.item
           /\ out' = IF r.item = None THEN out ELSE Append(out, r.item[1])
    /\ UNCHANGED <<input, ref, ref_last>>

NextPoints == EllipsePoints \/ PointsNext

SpecPoints == InitPoints /\ [][NextPoints]_vars

\* the points of a box in row-major order
RowMajor(top_left, size) ==
    [i \in 1 .. size[1] * size[2] |->
        <<top_left[1] + ((i - 1) % size[1]), top_left[2] + ((i - 1) \div size[1])>>]

IsPrefix(s, t) == Len(s) <= Len(t) /\ \A i \in 1 .. Len(s) : s[i] = t[i]

ContainedInOrder(e) ==
    SelectSeq(RowMajor(e.top_left, e.size), LAMBDA p : contains(e, p))

\* C1: points() yields, in the row-major order of the bounding box, exactly the
\* points of the box for which contains() is true, each once, and nothing else.
C1_PointsAreContained ==
    (iter # NoIter) =>
        /\ IsPrefix(out, ContainedInOrder(ellipse))
        /\ (last = None => out = ContainedInOrder(ellipse))
        /\ \A i \in 1 .. Len(out) : contains(ellipse, out[i])

C1_Witness ==
    /\ iter # NoIter
    /\ last = None
    /\ Len(out) >= 4
    /\ Len(out) < ellipse.size[1] * ellipse.size[2]

(***************************************************************************)
(* Ellipse::contains applied to one point                                  *)
(***************************************************************************)
Probes == {<<x, y>> : x \in -3 .. MaxDim + 1, y \in -1 .. MaxDim + 4}

InitContains ==
    /\ ellipse \in Ellipses
    /\ vertices = <<>>
    /\ style = NoStyle
    /\ overflow_checks = FALSE
    /\ probe \in Probes
    /\ iter = NoIter
    /\ ref = NoIter
    /\ ref_last = NotCalled
    /\ out = <<>>
    /\ last = NotCalled

Contains ==
    /\ last = NotCalled
    /\ last' = Some(contains(ellipse, probe))
    /\ UNCHANGED <<input, iter, ref, ref_last, out>>

NextContains == Contains

SpecContains == InitContains /\ [][NextContains]_vars

\* p lies in the half-open box [top_left, top_left + size)
InBoundingBox(e, p) ==
    LET box == bounding_box(e)
    IN  /\ box.top_left[1] <= p[1] /\ p[1] < box.top_left[1] + box.size[1]
        /\ box.top_left[2] <= p[2] /\ p[2] < box.top_left[2] + box.size[2]

\* C9: contains(p) is true only for points of the bounding box, so an ellipse of
\* zero width or zero height contains no point.
C9_ContainsOnlyInsideBox ==
    (last = Some(TRUE)) => InBoundingBox(ellipse, probe)

\* contains() never accepts a point outside the box of an ellipse whose width and
\* height are both at least 1
ContainsInsideBoxWhenNotDegenerate ==
    (last = Some(TRUE) /\ ellipse.size[1] > 0 /\ ellipse.size[2] > 0)
        => InBoundingBox(ellipse, probe)

(***************************************************************************)
(* StyledEllipseIterator                                                   *)
(***************************************************************************)
StyledEllipseIterator_new_single_shrink(styled, checks) ==
    LET stroke_width == effective_stroke_width(styled.style)
        outer_size == styled.primitive.size
        inner_size == Size_saturating_sub(outer_size, <<stroke_width, stroke_width>>)
        inner_width == inner_size[1]
    IN  [iter |-> IF ~is_transparent(styled.style)
                  THEN Points_new(styled.primitive)
                  ELSE Points_empty,
         outer_size |-> outer_size,
         outer_color |-> styled.style.stroke_color,
         inner_size |-> <<inner_size[1] * inner_size[1], inner_size[2] * inner_size[2]>>,
         inner_color |-> styled.style.fill_color,
         center |-> center_2x(styled.primitive),
         inner_width |-> inner_width]

\* checks: the build panics on arithmetic overflow (2 * stroke_width is a plain
\* u32 product); without checks the product wraps
StyledEllipseIterator_new(styled, checks) ==
    LET stroke_width == effective_stroke_width(styled.style)
        outer_size == styled.primitive.size
        twice == wrapping_mul2(stroke_width)
        inner_size == Size_saturating_sub(outer_size, <<twice, twice>>)
        inner_width == inner_size[1]
    IN  IF checks /\ mul2_overflows(stroke_width)
        THEN Panicked
        ELSE [iter |-> IF ~is_transparent(styled.style)
                       THEN Points_new(styled.primitive)
                       ELSE Points_empty,
              outer_size |-> outer_size,
              outer_color |-> styled.style.stroke_color,
              inner_size |-> <<inner_size[1] * inner_size[1], inner_size[2] * inner_size[2]>>,
              inner_color |-> styled.style.fill_color,
              center |-> center_2x(styled.primitive),
              inner_width |-> inner_width]

\* the closure of next(): the pixel a point of the outer ellipse becomes
StyledEllipseIterator_pixel(self, point) ==
    LET inner_threshold ==
            size_to_threshold(self.inner_size,
                              <<point[1] * 2 - self.center[1],
                                point[2] * 2 - self.center[2]>>,
                              self.inner_width)
        color == IF inner_threshold THEN self.inner_color ELSE self.outer_color
    IN  IF color = None THEN None ELSE Some(<<point, color[1]>>)

\* self.iter.find_map(closure): Points::next is called until the closure gives
\* Some, so the rectangle's cursor stops behind the first point that is in
\* the ellipse and becomes a pixel
StyledEllipseIterator_next(self) ==
    LET points == self.iter
        found == Rectangle_find(points.iter,
                     [k \in Rectangle_cursors(points.iter) |->
                         /\ contains(points.ellipse, Rectangle_at(points.iter, k))
                         /\ StyledEllipseIterator_pixel(self, Rectangle_at(points.iter, k))
                                # None])
    IN  [item |-> IF found.item = None THEN None
                  ELSE StyledEllipseIterator_pixel(self, found.item[1]),
         self |-> [self EXCEPT !.iter = [points EXCEPT !.iter = found.iter]]]

Styled(primitive, s) == [primitive |-> primitive, style |-> s]

(***************************************************************************)
(* A styled ellipse drawn pixel by pixel                                   *)
(***************************************************************************)
\* stroke widths at the top of the u32 range: 2^31 - 1, 2^31, 2^32 - 1
WideStrokes == {<<Limb \div 2 - 1, Limb - 1>>, <<Limb \div 2, 0>>, <<Limb - 1, Limb - 1>>}

StrokeWidths == {U32(n) : n \in 0 .. MaxStroke} \cup WideStrokes

EllipseStyles ==
    [stroke_color : {None, Some("Off")}, stroke_width : StrokeWidths,
     fill_color : {None, Some("On")}]

\* tests::filled_ellipse, thin_stroked_ellipse, fill_and_stroke
GoldenEllipse == Ellipse_new(<<0, 0>>, <<20, 10>>)

GoldenStyle == [stroke_color |-> Some("Off"), stroke_width |-> U32(3), fill_color |-> Some("On")]

InitStyled ==
    /\ ellipse \in Ellipses \cup {GoldenEllipse}
    /\ vertices = <<>>
    /\ style \in EllipseStyles
    /\ overflow_checks \in BOOLEAN
    /\ probe = <<0, 0>>
    /\ iter = NoIter
    /\ ref = NoIter
    /\ ref_last = NotCalled
    /\ out = <<>>
    /\ last = NotCalled

StyledIntoIter ==
    /\ iter = NoIter
    /\ iter' = StyledEllipseIterator_new(Styled(ellipse, style), overflow_checks)
    /\ UNCHANGED <<input, ref, ref_last, out, last>>

StyledNext ==
    /\ iter # NoIter
    /\ iter # Panicked
    /\ LET r == StyledEllipseIterator_next(iter)
       IN  /\ iter' = r.self
           /\ last' = r.item
           /\ out' = IF r.item = None THEN out ELSE Append(out, r.item[1])
    /\ UNCHANGED <<input, ref, ref_last>>

NextStyled == StyledIntoIter \/ StyledNext

SpecStyled == InitStyled /\ [][NextStyled]_vars

\* max(0, dim - 2 * width) over the integers, for dim < 2^16 and any u32 width
ClampedInner(dim, width) ==
    IF width[1] > 0 \/ 2 * width[2] >= dim THEN 0 ELSE dim - 2 * width[2]

\* the containment test on a size given as full width and height and a point
\* relative to the doubled centre
InsideTest(w, h, rel) ==
    LET x2 == rel[1] * rel[1]
        y2 == rel[2] * rel[2]
    IN  IF w = h
        THEN x2 + y2 < (IF w <= 4 THEN w * w - (w \div 2) ELSE w * w)
        ELSE h * h * x2 + w * w * y2 - w * w * h * h <= 0

\* the colour the inner test gives a point of the outer ellipse
BandColor(e, s, point) ==
    LET width == effective_stroke_width(s)
        c == center_2x(e)
        inner == InsideTest(ClampedInner(e.size[1], width), ClampedInner(e.size[2], width),
                            <<point[1] * 2 - c[1], point[2] * 2 - c[2]>>)
    IN  IF inner THEN s.fill_color ELSE s.stroke_color

BandPixels(e, s, points) ==
    LET kept == SelectSeq(points, LAMBDA point : BandColor(e, s, point) # None)
    IN  [i \in 1 .. Len(kept) |-> <<kept[i], BandColor(e, s, kept[i])[1]>>]

ExpectedPixels(e, s) == BandPixels(e, s, ContainedInOrder(e))

\* C3: with a style that is not fully transparent the pixels are the outer
\* ellipse's points, in order, each coloured fill when it passes the inner test
\* on the clamped inner size and stroke otherwise, and dropped when that colour
\* is absent.
C3_StyledPixels ==
    (iter # NoIter /\ ~is_transparent(style)) =>
        /\ iter # Panicked
        /\ IsPrefix(out, ExpectedPixels(ellipse, style))
        /\ (last = None => out = ExpectedPixels(ellipse, style))

\* the same statement for the stroke widths whose double fits in a u32
StyledPixelsBelowOverflow ==
    (iter # NoIter /\ ~is_transparent(style)
        /\ ~mul2_overflows(effective_stroke_width(style))) =>
        /\ iter # Panicked
        /\ IsPrefix(out, ExpectedPixels(ellipse, style))
        /\ (last = None => out = ExpectedPixels(ellipse, style))

\* a row of the 20-wide raster: stroke cells, fill cells, stroke cells, centred
GoldenRow(y, drawn, filled) ==
    {<<<<x, y>>, IF (20 - filled) \div 2 <= x /\ x < (20 + filled) \div 2
                 THEN "On" ELSE "Off">> :
        x \in (20 - drawn) \div 2 .. (20 + drawn) \div 2 - 1}

GoldenRaster ==
    GoldenRow(0, 8, 0) \cup GoldenRow(1, 14, 0) \cup GoldenRow(2, 18, 0)
        \cup GoldenRow(3, 20, 10) \cup GoldenRow(4, 20, 14)
        \cup GoldenRow(5, 20, 14) \cup GoldenRow(6, 20, 10)
        \cup GoldenRow(7, 18, 0) \cup GoldenRow(8, 14, 0) \cup GoldenRow(9, 8, 0)

DrawnPixels == {out[i] : i \in 1 .. Len(out)}

GoldenDrawn ==
    /\ ellipse = GoldenEllipse
    /\ style = GoldenStyle
    /\ iter # NoIter
    /\ last = None

\* C4: the 20 x 10 ellipse with a 3 wide Off stroke and an On fill draws rows of
\* 8, 14, 18, 20, 20, 20, 20, 18, 14, 8 centred cells, On in the middle 10 cells
\* of rows 3 and 6 and the middle 14 cells of rows 4 and 5, Off elsewhere, and
\* touches no other cell.
C4_GoldenFillAndStroke ==
    /\ (ellipse = GoldenEllipse /\ style = GoldenStyle) => DrawnPixels \subseteq GoldenRaster
    /\ GoldenDrawn =>
        /\ DrawnPixels = GoldenRaster
        /\ Len(out) = Cardinality(GoldenRaster)

C4_Witness == GoldenDrawn /\ Len(out) = 160

\* C5: the inner size is max(0, dimension - 2 * effective stroke width) on each
\* axis for every u32 stroke width, and computing it never overflows or panics.
C5_InnerSizeSaturates ==
    (iter # NoIter) =>
        /\ iter # Panicked
        /\ LET width == effective_stroke_width(style)
               w == ClampedInner(ellipse.size[1], width)
               h == ClampedInner(ellipse.size[2], width)
           IN  /\ iter.inner_width = w
               /\ iter.inner_size = <<w * w, h * h>>

\* the inner size is right whenever 2 * stroke width fits in a u32
InnerSizeBelowOverflow ==
    (iter # NoIter /\ ~mul2_overflows(effective_stroke_width(style))) =>
        /\ iter # Panicked
        /\ LET width == effective_stroke_width(style)
               w == ClampedInner(ellipse.size[1], width)
               h == ClampedInner(ellipse.size[2], width)
           IN  /\ iter.inner_width = w
               /\ iter.inner_size = <<w * w, h * h>>

\* C10: when the stroke is so wide that the inner size clamps to zero on an
\* axis, every point of the outer ellipse is drawn in the stroke colour.  Stated
\* for the stroke widths whose double fits in a u32.
C10_ClampedInnerIsAllStroke ==
    LET width == effective_stroke_width(style)
    IN  (/\ iter # NoIter
         /\ style.stroke_color # None
         /\ ~mul2_overflows(width)
         /\ \/ ClampedInner(ellipse.size[1], width) = 0
            \/ ClampedInner(ellipse.size[2], width) = 0) =>
            /\ \A i \in 1 .. Len(out) : out[i][2] = style.stroke_color[1]
            /\ last = None =>
                 out = [i \in 1 .. Len(ContainedInOrder(ellipse)) |->
                            <<ContainedInOrder(ellipse)[i], style.stroke_color[1]>>]

\* the same when the inner size clamps to zero on both axes
BothAxesClampedIsAllStroke ==
    LET width == effective_stroke_width(style)
    IN  (/\ iter # NoIter
         /\ style.stroke_color # None
         /\ ~mul2_overflows(width)
         /\ ClampedInner(ellipse.size[1], width) = 0
         /\ ClampedInner(ellipse.size[2], width) = 0) =>
            /\ \A i \in 1 .. Len(out) : out[i][2] = style.stroke_color[1]
            /\ last = None =>
                 out = [i \in 1 .. Len(ContainedInOrder(ellipse)) |->
                            <<ContainedInOrder(ellipse)[i], style.stroke_color[1]>>]

(***************************************************************************)
(* Circle: the rasteriser the ellipse tests compare against.  A point is   *)
(* in the circle when its squared distance from the doubled centre is      *)
(* below the threshold of the diameter.                                    *)
(***************************************************************************)
Circle_new(top_left, diameter) == [top_left |-> top_left, diameter |-> diameter]

diameter_to_threshold(diameter) ==
    IF diameter <= 4
    THEN diameter * diameter - (diameter \div 2)
    ELSE diameter * diameter

Circle_center_2x(c) ==
    LET radius == ToNat(saturating_sub(U32(c.diameter), U32(1)))
    IN  <<c.top_left[1] * 2 + radius, c.top_left[2] * 2 + radius>>

Circle_distance(c, point) ==
    LET center == Circle_center_2x(c)
        dx == point[1] * 2 - center[1]
        dy == point[2] * 2 - center[2]
    IN  dx * dx + dy * dy

Circle_points(c) ==
    [circle |-> c, iter |-> Rectangle_points(c.top_left, <<c.diameter, c.diameter>>)]

Circle_Points_next(p) ==
    LET found == Rectangle_find(p.iter,
                     [k \in Rectangle_cursors(p.iter) |->
                         Circle_distance(p.circle, Rectangle_at(p.iter, k))
                             < diameter_to_threshold(p.circle.diameter)])
    IN  [item |-> found.item, self |-> [p EXCEPT !.iter = found.iter]]

StyledCircleIterator_new(styled) ==
    LET stroke_width == effective_stroke_width(styled.style)
        c == styled.primitive
        inner_diameter ==
            ToNat(saturating_sub(U32(c.diameter), wrapping_mul2(stroke_width)))
    IN  [circle |-> c,
         iter |-> IF ~is_transparent(styled.style)
                  THEN Rectangle_points(c.top_left, <<c.diameter, c.diameter>>)
                  ELSE Rectangle_points(<<0, 0>>, <<0, 0>>),
         outer_threshold |-> diameter_to_threshold(c.diameter),
         outer_color |-> styled.style.stroke_color,
         inner_threshold |-> diameter_to_threshold(inner_diameter),
         inner_color |-> styled.style.fill_color]

StyledCircleIterator_pixel(self, point) ==
    LET distance == Circle_distance(self.circle, point)
        color == IF distance < self.inner_threshold THEN self.inner_color
                 ELSE IF distance < self.outer_threshold THEN self.outer_color
                 ELSE None
    IN  IF color = None THEN None ELSE Some(<<point, color[1]>>)

StyledCircleIterator_next(self) ==
    LET found == Rectangle_find(self.iter,
                     [k \in Rectangle_cursors(self.iter) |->
                         StyledCircleIterator_pixel(self, Rectangle_at(self.iter, k)) # None])
    IN  [item |-> IF found.item = None THEN None
                  ELSE StyledCircleIterator_pixel(self, found.item[1]),
         self |-> [self EXCEPT !.iter = found.iter]]

(***************************************************************************)
(* tests::circles_points and tests::test_circles: the ellipse of size      *)
(* (d, d) and the circle of diameter d, stepped side by side               *)
(***************************************************************************)
\* the end of the tests' range of diameters
TestDiameterEnd == 50

\* with_fill(On), with_stroke(On, 1), with_stroke(On, 10)
TestStyles ==
    {[stroke_color |-> None, stroke_width |-> U32(0), fill_color |-> Some("On")],
     [stroke_color |-> Some("On"), stroke_width |-> U32(1), fill_color |-> None],
     [stroke_color |-> Some("On"), stroke_width |-> U32(10), fill_color |-> None]}

\* the test that runs: circles_points compares points(), test_circles the pixels
IsStyledIterator(it) == "inner_size" \in DOMAIN it

IsPointsIterator(it) == "ellipse" \in DOMAIN it

InitCircles ==
    /\ ellipse \in {Ellipse_new(<<0, 0>>, <<d, d>>) : d \in 1 .. TestDiameterEnd}
    /\ vertices = <<>>
    /\ style \in TestStyles
    /\ overflow_checks \in BOOLEAN
    /\ probe = <<0, 0>>
    /\ iter = NoIter
    /\ ref = NoIter
    /\ ref_last = NotCalled
    /\ out = <<>>
    /\ last = NotCalled

CirclesPoints ==
    /\ iter = NoIter
    /\ iter' = Points_new(ellipse)
    /\ ref' = Circle_points(Circle_new(ellipse.top_left, ellipse.size[1]))
    /\ UNCHANGED <<input, ref_last, out, last>>

CirclesPointsNext ==
    /\ IsPointsIterator(iter)
    /\ last # None \/ ref_last # None
    /\ LET r == Points_next(iter)
           c == Circle_Points_next(ref)
       IN  /\ iter' = r.self
           /\ last' = r.item
           /\ ref' = c.self
           /\ ref_last' = c.item
    /\ UNCHANGED <<input, out>>

TestCircles ==
    /\ iter = NoIter
    /\ iter' = StyledEllipseIterator_new(Styled(ellipse, style), overflow_checks)
    /\ ref' = StyledCircleIterator_new(
                  Styled(Circle_new(ellipse.top_left, ellipse.size[1]), style))
    /\ UNCHANGED <<input, ref_last, out, last>>

TestCirclesNext ==
    /\ IsStyledIterator(iter)
    /\ last # None \/ ref_last # None
    /\ LET r == StyledEllipseIterator_next(iter)
           c == StyledCircleIterator_next(ref)
       IN  /\ iter' = r.self
           /\ last' = r.item
           /\ ref' = c.self
           /\ ref_last' = c.item
    /\ UNCHANGED <<input, out>>

NextCircles == CirclesPoints \/ CirclesPointsNext \/ TestCircles \/ TestCirclesNext

SpecCircles == InitCircles /\ [][NextCircles]_vars

Abs(n) == IF n < 0 THEN -n ELSE n

Sign(n) == IF n < 0 THEN -1 ELSE 1

Line_new(start, end) == [start |-> start, end |-> end]

ThickLineIterator_new(line, width) ==
    [start |-> line.start,
     end |-> line.end,
     delta |-> <<Abs(line.end[1] - line.start[1]), Abs(line.end[2] - line.start[2])>>,
     direction |-> <<Sign(line.end[1] - line.start[1]), Sign(line.end[2] - line.start[2])>>,
     err |-> Abs(line.end[1] - line.start[1]) - Abs(line.end[2] - line.start[2]),
     stop |-> FALSE]

ThickLineIterator_next(self) ==
    IF self.stop
    THEN [item |-> None, self |-> self]
    ELSE LET point == self.start
             err_double == 2 * self.err
             step_x == err_double > -self.delta[2]
             step_y == err_double < self.delta[1]
         IN  IF point = self.end
             THEN [item |-> Some(point), self |-> [self EXCEPT !.stop = TRUE]]
             ELSE [item |-> Some(point),
                   self |-> [self EXCEPT
                       !.err = self.err - (IF step_x THEN self.delta[2] ELSE 0)
                                        + (IF step_y THEN self.delta[1] ELSE 0),
                       !.start = <<point[1] + (IF step_x THEN self.direction[1] ELSE 0),
                                   point[2] + (IF step_y THEN self.direction[2] ELSE 0)>>]]

(***************************************************************************)
(* Polyline, PolylineIterator                                              *)
(***************************************************************************)
Polyline_into_iter_whole_slice(vs) ==
    IF Len(vs) >= 2
    THEN [stop |-> FALSE,
          vertices |-> vs,
          segment_iter |-> ThickLineIterator_new(Line_new(vs[1], vs[2]), 1)]
    ELSE [stop |-> TRUE,
          vertices |-> <<>>,
          segment_iter |-> ThickLineIterator_new(Line_new(<<0, 0>>, <<0, 0>>), 1)]

Polyline_into_iter(vs) ==
    IF Len(vs) >= 2
    THEN [stop |-> FALSE,
          vertices |-> Tail(vs),
          segment_iter |-> ThickLineIterator_new(Line_new(vs[1], vs[2]), 1)]
    ELSE [stop |-> TRUE,
          vertices |-> <<>>,
          segment_iter |-> ThickLineIterator_new(Line_new(<<0, 0>>, <<0, 0>>), 1)]

RECURSIVE PolylineIterator_next(_)
PolylineIterator_next(self) ==
    IF self.stop
    THEN [item |-> None, self |-> self]
    ELSE LET r == ThickLineIterator_next(self.segment_iter)
             polled == [self EXCEPT !.segment_iter = r.self]
         IN  IF r.item # None
             THEN [item |-> r.item, self |-> polled]
             ELSE IF Len(self.vertices) = 0
                  THEN [item |-> None, self |-> polled]
                  ELSE LET start == Head(self.vertices)
                           rest == Tail(self.vertices)
                       IN  IF Len(rest) = 0
                           THEN [item |-> None, self |-> polled]
                           ELSE PolylineIterator_next(
                                    [self EXCEPT
                                        !.vertices = rest,
                                        !.segment_iter =
                                            ThickLineIterator_new(Line_new(start, rest[1]), 1)])

(***************************************************************************)
(* StyledPolylineIterator                                                  *)
(***************************************************************************)
StyledPolyline_into_iter(styled) ==
    [style |-> styled.style, line_iter |-> Polyline_into_iter(styled.primitive)]

StyledPolylineIterator_next_any_width(self) ==
    IF self.style.stroke_color = None
    THEN [item |-> None, self |-> self]
    ELSE LET r == PolylineIterator_next(self.line_iter)
         IN  [item |-> IF r.item = None THEN None
                       ELSE Some(<<r.item[1], self.style.stroke_color[1]>>),
              self |-> [self EXCEPT !.line_iter = r.self]]

StyledPolylineIterator_next_fill_first(self) ==
    IF self.style.stroke_width = U32(0)
    THEN [item |-> None, self |-> self]
    ELSE IF self.style.stroke_color = None
         THEN [item |-> None, self |-> self]
         ELSE LET r == PolylineIterator_next(self.line_iter)
                  color == IF self.style.fill_color # None
                           THEN self.style.fill_color ELSE self.style.stroke_color
              IN  [item |-> IF r.item = None THEN None
                            ELSE Some(<<r.item[1], color[1]>>),
                   self |-> [self EXCEPT !.line_iter = r.self]]

StyledPolylineIterator_next(self) ==
    IF self.style.stroke_width = U32(0)
    THEN [item |-> None, self |-> self]
    ELSE IF self.style.stroke_color = None
         THEN [item |-> None, self |-> self]
         ELSE LET r == PolylineIterator_next(self.line_iter)
              IN  [item |-> IF r.item = None THEN None
                            ELSE Some(<<r.item[1], self.style.stroke_color[1]>>),
                   self |-> [self EXCEPT !.line_iter = r.self]]

(***************************************************************************)
(* A polyline iterated point by point, and a styled one pixel by pixel     *)
(***************************************************************************)
VertexPool == {<<0, 0>>, <<3, 0>>, <<3, 2>>, <<-1, 1>>}

RECURSIVE SeqsUpTo(_, _)
SeqsUpTo(S, n) ==
    IF n = 0 THEN {<<>>}
    ELSE LET shorter == SeqsUpTo(S, n - 1)
         IN  shorter \cup {Append(q, v) : q \in shorter, v \in S}

\* the three-vertex polyline with a corner at (10, 0)
CornerVertices == <<<<0, 0>>, <<10, 0>>, <<10, 10>>>>

PolylineStyles ==
    [stroke_color : {None, Some("On")},
     stroke_width : {U32(n) : n \in 0 .. MaxStroke},
     fill_color : {None, Some("Off")}]

InitPolyline ==
    /\ ellipse = Ellipse_new(<<0, 0>>, <<0, 0>>)
    /\ vertices \in SeqsUpTo(VertexPool, MaxVertices) \cup {CornerVertices}
    /\ style \in PolylineStyles
    /\ overflow_checks = FALSE
    /\ probe = <<0, 0>>
    /\ iter = NoIter
    /\ ref = NoIter
    /\ ref_last = NotCalled
    /\ out = <<>>
    /\ last = NotCalled

IsPolylineIterator(it) == "segment_iter" \in DOMAIN it

IsStyledPolylineIterator(it) == "line_iter" \in DOMAIN it

PolylineIntoIter ==
    /\ iter = NoIter
    /\ iter' = Polyline_into_iter(vertices)
    /\ UNCHANGED <<input, ref, ref_last, out, last>>

PolylineNext ==
    /\ IsPolylineIterator(iter)
    /\ LET r == PolylineIterator_next(iter)
       IN  /\ iter' = r.self
           /\ last' = r.item
           /\ out' = IF r.item = None THEN out ELSE Append(out, r.item[1])
    /\ UNCHANGED <<input, ref, ref_last>>

StyledPolylineIntoIter ==
    /\ iter = NoIter
    /\ iter' = StyledPolyline_into_iter(Styled(vertices, style))
    /\ UNCHANGED <<input, ref, ref_last, out, last>>

StyledPolylineNext ==
    /\ IsStyledPolylineIterator(iter)
    /\ LET r == StyledPolylineIterator_next(iter)
       IN  /\ iter' = r.self
           /\ last' = r.item
           /\ out' = IF r.item = None THEN out ELSE Append(out, r.item[1])
    /\ UNCHANGED <<input, ref, ref_last>>

NextPolyline ==
    PolylineIntoIter \/ PolylineNext \/ StyledPolylineIntoIter \/ StyledPolylineNext

SpecPolyline == InitPolyline /\ [][NextPolyline]_vars

\* everything a line iterator still has to give
RECURSIVE LineRun(_)
LineRun(it) ==
    LET r == ThickLineIterator_next(it)
    IN  IF r.item = None THEN <<>> ELSE <<r.item[1]>> \o LineRun(r.self)

SegmentPoints(a, b) == LineRun(ThickLineIterator_new(Line_new(a, b), 1))

\* the segments (v[1], v[2]), (v[2], v[3]), ... one after the other
RECURSIVE ChainedSegments(_)
ChainedSegments(vs) ==
    IF Len(vs) < 2 THEN <<>>
    ELSE SegmentPoints(vs[1], vs[2]) \o ChainedSegments(Tail(vs))

\* C6: the points of a polyline are the complete width-1 lines of its
\* consecutive vertex pairs, concatenated in order with nothing skipped,
\* repeated, cut short or de-duplicated; nothing for fewer than two vertices;
\* and once next() has returned None it returns None again on every later call.
C6_PolylineChainsSegments ==
    IsPolylineIterator(iter) =>
        /\ IsPrefix(out, ChainedSegments(vertices))
        /\ (last = None => out = ChainedSegments(vertices))
        /\ (Len(vertices) < 2 => out = <<>>)

\* the corner polyline is exhausted and its corner (10, 0) was given twice
C6_Witness ==
    /\ IsPolylineIterator(iter)
    /\ vertices = CornerVertices
    /\ last = None
    /\ Len(out) = 22
    /\ out[11] = <<10, 0>>
    /\ out[12] = <<10, 0>>

\* C7: with a stroke colour c and a stroke width of at least 1 the pixels of a
\* styled polyline are the polyline's points, in order and multiplicity, each
\* paired with c, whatever the stroke width and the fill colour.
C7_StyledPolylinePixels ==
    (/\ IsStyledPolylineIterator(iter)
     /\ style.stroke_color # None
     /\ style.stroke_width # U32(0)) =>
        LET points == ChainedSegments(vertices)
            pixels == [i \in 1 .. Len(points) |-> <<points[i], style.stroke_color[1]>>]
        IN  /\ IsPrefix(out, pixels)
            /\ (last = None => out = pixels)

C7_Witness ==
    /\ IsStyledPolylineIterator(iter)
    /\ style.stroke_color # None
    /\ style.stroke_width = U32(2)
    /\ style.fill_color # None
    /\ Len(vertices) = 3
    /\ last = None
    /\ Len(out) >= 6

\* C8: with a stroke width of 0 or no stroke colour every next() of a styled
\* polyline returns None and the polyline iterator inside stays where
\* into_iter left it.
C8_InvisibleStrokeDrawsNothing ==
    (/\ IsStyledPolylineIterator(iter)
     /\ (style.stroke_width = U32(0) \/ style.stroke_color = None)) =>
        /\ out = <<>>
        /\ last \in {NotCalled, None}
        /\ iter.line_iter = Polyline_into_iter(vertices)

C8_Witness ==
    /\ IsStyledPolylineIterator(iter)
    /\ style.stroke_width = U32(0)
    /\ style.stroke_color # None
    /\ style.fill_color # None
    /\ Len(vertices) = 3
    /\ last = None

====
